---- MODULE Spec2Model ----
(***************************************************************************)
(* A model of the EC2 instance-metadata client of src/src/lib.rs:           *)
(* InstanceMetadataClient::get, get_token, identity_credentials_to_        *)
(* account_id and availability_zone_to_region.                             *)
(*                                                                         *)
(* Text (a Rust String or &str) is a sequence of one-character strings, so *)
(* that prefix matching and JSON parsing work on the characters.  The URLs *)
(* and the error kinds, which the code only passes around, are TLA+        *)
(* strings.                                                                *)
(***************************************************************************)
EXTENDS Naturals, Sequences, FiniteSets

VARIABLES
    server,     \* the metadata endpoint: the response it gives for each field's URL
    issued,     \* number of tokens the endpoint has handed out
    pc,         \* per get() invocation: the request it is about to issue
    token,      \* per invocation: the local `token` of get()
    local,      \* per invocation: the locals instance_id .. public_hostname of get()
    result,     \* per invocation: the value get() returned
    sent,       \* per invocation: the requests it has issued, in order
    recv,       \* per invocation: the response to each of those requests
    preceded,   \* per invocation: the invocations that had returned when it began
    zone,       \* the argument of a call of availability_zone_to_region
    resolved    \* the value that call returned

vars == <<server, issued, pc, token, local, result, sent, recv, preceded, zone, resolved>>
clientVars == <<server, issued, pc, token, local, result, sent, recv, preceded>>
regionVars == <<zone, resolved>>

\* Number of get() invocations of one behaviour; they may overlap or follow
\* one another.
MaxCalls == 2

\* Longest suffix appended to a region code to form an availability zone.
MaxSuffix == 1

Calls == 1..MaxCalls

----------------------------------------------------------------------------
(* Text *)

NoText == <<>>

\* str::starts_with: prefix p is a literal prefix of s.
StartsWith(s, p) ==
    /\ Len(p) <= Len(s)
    /\ \A i \in 1..Len(p) : s[i] = p[i]

----------------------------------------------------------------------------
(* Error, lib.rs 80-105 *)

\* ureq::Error is Transport(..) or Status(code, ..); Error::from formats it
\* with {:?} into the HttpRequest message.
HttpRequest(kind) == [kind |-> "HttpRequest", msg |-> kind]

\* From<std::io::Error>: a failed read of a response body.
IoError == [kind |-> "IoError", msg |-> "io"]

\* From<json::Error>.
JsonError == [kind |-> "JsonError", msg |-> "json"]

UnknownAvailabilityZone(z) == [kind |-> "UnknownAvailabilityZone", zone |-> z]

NotFound(url) == [kind |-> "NotFound", url |-> url]

Ok(v) == [status |-> "Ok", value |-> v]
Err(e) == [status |-> "Err", error |-> e]
Pending == [status |-> "none"]

----------------------------------------------------------------------------
(* availability_zone_to_region, lib.rs 44-76 *)

REGIONS ==
    <<
       <<"a", "p", "-", "s", "o", "u", "t", "h", "-", "1">>,   \* ap-south-1
       <<"e", "u", "-", "w", "e", "s", "t", "-", "3">>,   \* eu-west-3
       <<"e", "u", "-", "n", "o", "r", "t", "h", "-", "1">>,   \* eu-north-1
       <<"e", "u", "-", "w", "e", "s", "t", "-", "2">>,   \* eu-west-2
       <<"e", "u", "-", "w", "e", "s", "t", "-", "1">>,   \* eu-west-1
       <<"a", "p", "-", "n", "o", "r", "t", "h", "e", "a", "s", "t", "-", "3">>,   \* ap-northeast-3
       <<"a", "p", "-", "n", "o", "r", "t", "h", "e", "a", "s", "t", "-", "2">>,   \* ap-northeast-2
       <<"a", "p", "-", "n", "o", "r", "t", "h", "e", "a", "s", "t", "-", "1">>,   \* ap-northeast-1
       <<"s", "a", "-", "e", "a", "s", "t", "-", "1">>,   \* sa-east-1
       <<"c", "a", "-", "c", "e", "n", "t", "r", "a", "l", "-", "1">>,   \* ca-central-1
       <<"a", "p", "-", "s", "o", "u", "t", "h", "e", "a", "s", "t", "-", "1">>,   \* ap-southeast-1
       <<"a", "p", "-", "s", "o", "u", "t", "h", "e", "a", "s", "t", "-", "2">>,   \* ap-southeast-2
       <<"e", "u", "-", "c", "e", "n", "t", "r", "a", "l", "-", "1">>,   \* eu-central-1
       <<"u", "s", "-", "e", "a", "s", "t", "-", "1">>,   \* us-east-1
       <<"u", "s", "-", "e", "a", "s", "t", "-", "2">>,   \* us-east-2
       <<"u", "s", "-", "w", "e", "s", "t", "-", "1">>,   \* us-west-1
       <<"u", "s", "-", "w", "e", "s", "t", "-", "2">>,   \* us-west-2
       <<"c", "n", "-", "n", "o", "r", "t", "h", "-", "1">>,   \* cn-north-1
       <<"c", "n", "-", "n", "o", "r", "t", "h", "w", "e", "s", "t", "-", "1">>    \* cn-northwest-1
    >>

\* The for loop of lines 67-71, from table index i on: the first entry that
\* availability_zone starts with, else the error of lines 73-75.
RECURSIVE ScanRegions(_, _)
ScanRegions(availability_zone, i) ==
    IF i > Len(REGIONS)
    THEN Err(UnknownAvailabilityZone(availability_zone))
    ELSE IF StartsWith(availability_zone, REGIONS[i])
         THEN Ok(REGIONS[i])
         ELSE ScanRegions(availability_zone, i + 1)

\* A scan that leaves out the table's first entry.
availability_zone_to_region_skip(availability_zone) ==
    ScanRegions(availability_zone, 2)

availability_zone_to_region(availability_zone) ==
    ScanRegions(availability_zone, 1)

----------------------------------------------------------------------------
(* identity_credentials_to_account_id, lib.rs 39-42 *)

Quote == "\""
JsonNullText == <<"n", "u", "l", "l">>
AccountIdKey == <<"A", "c", "c", "o", "u", "n", "t", "I", "d">>
ParseFailed == [ok |-> FALSE]

\* Index of the first quote of s at or after i, 0 when there is none.
RECURSIVE ScanQuote(_, _)
ScanQuote(s, i) ==
    IF i > Len(s) THEN 0
    ELSE IF s[i] = Quote THEN i
    ELSE ScanQuote(s, i + 1)

\* A JSON string (without escapes) starting at s[i].
ParseString(s, i) ==
    IF i > Len(s) \/ s[i] # Quote
    THEN ParseFailed
    ELSE LET j == ScanQuote(s, i + 1)
         IN  IF j = 0
             THEN ParseFailed
             ELSE [ok |-> TRUE, val |-> SubSeq(s, i + 1, j - 1), next |-> j + 1]

\* The members "key":"value" of an object from s[i] on, up to the closing
\* brace, which must end the text.
RECURSIVE ParseMembers(_, _, _)
ParseMembers(s, i, members) ==
    LET k == ParseString(s, i)
    IN  IF ~k.ok \/ k.next > Len(s) \/ s[k.next] # ":"
        THEN ParseFailed
        ELSE LET v == ParseString(s, k.next + 1)
                 got == Append(members, <<k.val, v.val>>)
             IN  IF ~v.ok \/ v.next > Len(s)
                 THEN ParseFailed
                 ELSE IF s[v.next] = ","
                      THEN ParseMembers(s, v.next + 1, got)
                      ELSE IF s[v.next] = "}" /\ v.next = Len(s)
                           THEN [ok |-> TRUE, members |-> got]
                           ELSE ParseFailed

\* json::parse on the documents the model feeds it: an object whose members
\* are strings, or text that is not JSON at all.
JsonParse(s) ==
    IF Len(s) < 2 \/ s[1] # "{"
    THEN ParseFailed
    ELSE IF s[2] = "}"
         THEN IF Len(s) = 2 THEN [ok |-> TRUE, members |-> <<>>] ELSE ParseFailed
         ELSE ParseMembers(s, 2, <<>>)

\* Indexing that gives the empty string for a missing key.
JsonIndexToString_empty(members, key) ==
    LET hits == {i \in 1..Len(members) : members[i][1] = key}
    IN  IF hits = {}
        THEN NoText
        ELSE members[CHOOSE i \in hits : \A j \in hits : i <= j][2]

\* parsed[key].to_string(): the member's string, and "null" for the
\* JsonValue::Null that indexing a missing key gives.
JsonIndexToString(members, key) ==
    LET hits == {i \in 1..Len(members) : members[i][1] = key}
    IN  IF hits = {}
        THEN JsonNullText
        ELSE members[CHOOSE i \in hits : \A j \in hits : i <= j][2]

\* The extractor with the `?` of line 40 dropped: a body that does not parse
\* counts as an object without members.
identity_credentials_to_account_id_lenient(ident_creds) ==
    LET parsed == JsonParse(ident_creds)
    IN  IF ~parsed.ok
        THEN Ok(JsonNullText)
        ELSE Ok(JsonIndexToString(parsed.members, AccountIdKey))

identity_credentials_to_account_id(ident_creds) ==
    LET parsed == JsonParse(ident_creds)
    IN  IF ~parsed.ok
        THEN Err(JsonError)
        ELSE Ok(JsonIndexToString(parsed.members, AccountIdKey))

----------------------------------------------------------------------------
(* The endpoint *)

TOKEN_API_URL == "http://169.254.169.254/latest/api/token"

\* The match arms in the order of the enum, AmiId before AccountId, against
\* the order of the requests.
Url_swapped(field) ==
    CASE field = "InstanceId" -> "http://169.254.169.254/latest/meta-data/instance-id"
      [] field = "AccountId" -> "http://169.254.169.254/latest/meta-data/ami-id"
      [] field = "AmiId" ->
             "http://169.254.169.254/latest/meta-data/identity-credentials/ec2/info"
      [] field = "AvailabilityZone" ->
             "http://169.254.169.254/latest/meta-data/placement/availability-zone"
      [] field = "InstanceType" -> "http://169.254.169.254/latest/meta-data/instance-type"
      [] field = "Hostname" -> "http://169.254.169.254/latest/meta-data/hostname"
      [] field = "LocalHostname" -> "http://169.254.169.254/latest/meta-data/local-hostname"
      [] field = "PublicHostname" ->
             "http://169.254.169.254/latest/meta-data/public-hostname"

\* impl Into<&'static str> for MetadataUrls.
Url(field) ==
    CASE field = "InstanceId" -> "http://169.254.169.254/latest/meta-data/instance-id"
      [] field = "AmiId" -> "http://169.254.169.254/latest/meta-data/ami-id"
      [] field = "AccountId" ->
             "http://169.254.169.254/latest/meta-data/identity-credentials/ec2/info"
      [] field = "AvailabilityZone" ->
             "http://169.254.169.254/latest/meta-data/placement/availability-zone"
      [] field = "InstanceType" -> "http://169.254.169.254/latest/meta-data/instance-type"
      [] field = "Hostname" -> "http://169.254.169.254/latest/meta-data/hostname"
      [] field = "LocalHostname" -> "http://169.254.169.254/latest/meta-data/local-hostname"
      [] field = "PublicHostname" ->
             "http://169.254.169.254/latest/meta-data/public-hostname"

MetadataUrls ==
    {"InstanceId", "AmiId", "AccountId", "AvailabilityZone", "InstanceType",
     "Hostname", "LocalHostname", "PublicHostname"}

\* What a request can come to: the transport fails, the status is not a
\* success, the body cannot be read, or the body arrives.
Transport == [kind |-> "Transport", body |-> NoText]
Status == [kind |-> "Status", body |-> NoText]
BodyError == [kind |-> "BodyError", body |-> NoText]
Body(text) == [kind |-> "Ok", body |-> text]
Unasked == [kind |-> "Unasked", body |-> NoText]

\* The bodies the endpoint may hold for a field: a usual one and the edge
\* cases (an empty body for the first of the plain fields, for a hostname and
\* for the optional field, documents without or with an empty AccountId,
\* text that is not JSON, a zone of no known region).
Bodies(field) ==
    CASE field = "InstanceId" -> {<<"i", "-", "1">>, NoText}
      [] field = "AccountId" ->
             {<<"{", "\"", "C", "o", "d", "e", "\"", ":", "\"", "o", "k", "\"", ",", "\"", "A", "c", "c", "o", "u", "n", "t", "I", "d", "\"", ":", "\"", "1", "2", "\"", "}">>,
              <<"{", "\"", "C", "o", "d", "e", "\"", ":", "\"", "o", "k", "\"", "}">>,
              <<"{", "\"", "A", "c", "c", "o", "u", "n", "t", "I", "d", "\"", ":", "\"", "\"", "}">>,
              <<"n", "o", "t", " ", "j", "s", "o", "n">>,
              NoText}
      [] field = "AmiId" -> {<<"a", "m", "i", "-", "1">>}
      [] field = "AvailabilityZone" ->
             {<<"u", "s", "-", "e", "a", "s", "t", "-", "1", "a">>,
              <<"x", "x", "-", "w", "e", "s", "t", "-", "1">>,
              NoText}
      [] field = "InstanceType" -> {<<"t", "2">>}
      [] field = "Hostname" -> {<<"i", "p", "-", "1">>, NoText}
      [] field = "LocalHostname" -> {<<"i", "p", "-", "2">>}
      [] field = "PublicHostname" -> {<<"e", "c", "2", "-", "1">>, NoText}

Responses(field) == {Transport, Status, BodyError} \cup {Body(b) : b \in Bodies(field)}

\* The n-th token the endpoint hands out: opaque text, different every time.
TokenText(n) == [i \in 1..n |-> "t"]

TokenResponses == {Transport, Status, BodyError, Body(TokenText(issued + 1))}

----------------------------------------------------------------------------
(* InstanceMetadataClient, lib.rs 134-277 *)

\* Every failure, the unreadable body too, taken for a failed call.
CallFailed_any(r) == r.kind \in {"Transport", "Status", "BodyError"}

\* A response with an error status taken for a response, as a transport that
\* does not turn statuses into errors gives it.
CallFailed_transport_only(r) == r.kind = "Transport"

\* `if let Ok(resp) = resp` fails: agent.call() returned a ureq::Error.
CallFailed(r) == r.kind \in {"Transport", "Status"}

\* resp.into_string()
into_string(r) == IF r.kind = "BodyError" THEN Err(IoError) ELSE Ok(r.body)

PutToken == [method |-> "PUT", url |-> TOKEN_API_URL, ttl |-> "21600"]

\* agent.get(url).set("X-aws-ec2-metadata-token", &token) of another
\* invocation's token: the one the endpoint issued last.
GetRequest_latest_token(c, field) ==
    [method |-> "GET", url |-> Url(field), token |-> TokenText(issued)]

\* agent.get(url).set("X-aws-ec2-metadata-token", &token)
GetRequest(c, field) ==
    [method |-> "GET", url |-> Url(field), token |-> token[c]]

NoLocals ==
    [instance_id |-> NoText, account_id |-> NoText, ami_id |-> NoText,
     availability_zone |-> NoText, region |-> NoText, instance_type |-> NoText,
     hostname |-> NoText, local_hostname |-> NoText]

None == [some |-> FALSE, value |-> NoText]
Some(v) == [some |-> TRUE, value |-> v]

\* The struct literal with hostname and local_hostname exchanged.
InstanceMetadata_swapped(c, public_hostname) ==
    [region |-> local[c].region,
     availability_zone |-> local[c].availability_zone,
     instance_id |-> local[c].instance_id,
     account_id |-> local[c].account_id,
     ami_id |-> local[c].ami_id,
     instance_type |-> local[c].instance_type,
     hostname |-> local[c].local_hostname,
     local_hostname |-> local[c].hostname,
     public_hostname |-> public_hostname]

\* The struct literal with the token where the instance id belongs.
InstanceMetadata_token(c, public_hostname) ==
    [region |-> local[c].region,
     availability_zone |-> local[c].availability_zone,
     instance_id |-> token[c],
     account_id |-> local[c].account_id,
     ami_id |-> local[c].ami_id,
     instance_type |-> local[c].instance_type,
     hostname |-> local[c].hostname,
     local_hostname |-> local[c].local_hostname,
     public_hostname |-> public_hostname]

\* The struct literal of lines 263-273.
InstanceMetadata(c, public_hostname) ==
    [region |-> local[c].region,
     availability_zone |-> local[c].availability_zone,
     instance_id |-> local[c].instance_id,
     account_id |-> local[c].account_id,
     ami_id |-> local[c].ami_id,
     instance_type |-> local[c].instance_type,
     hostname |-> local[c].hostname,
     local_hostname |-> local[c].local_hostname,
     public_hostname |-> public_hostname]

\* A request sent a second time after its answer.
Exchange_retry(c, field, r) ==
    /\ r \in Responses(field)
    /\ server[field] \in {Unasked, r}
    /\ server' = [server EXCEPT ![field] = r]
    /\ sent' = [sent EXCEPT ![c] = @ \o <<GetRequest(c, field), GetRequest(c, field)>>]
    /\ recv' = [recv EXCEPT ![c] = @ \o <<r, r>>]

\* Invocation c sends the GET of field and the endpoint answers r; a field's answer, once
\* given, stays the same.
Exchange(c, field, r) ==
    /\ r \in Responses(field)
    /\ server[field] \in {Unasked, r}
    /\ server' = [server EXCEPT ![field] = r]
    /\ sent' = [sent EXCEPT ![c] = Append(@, GetRequest(c, field))]
    /\ recv' = [recv EXCEPT ![c] = Append(@, r)]

\* `return`, and the `?` that returns an error.
Return(c, value) ==
    /\ result' = [result EXCEPT ![c] = value]
    /\ pc' = [pc EXCEPT ![c] = "done"]
    /\ UNCHANGED local

\* Bind the locals and go on to the next request.
Continue(c, locals, next) ==
    /\ local' = [local EXCEPT ![c] = locals]
    /\ pc' = [pc EXCEPT ![c] = next]
    /\ UNCHANGED result

\* get_token, and the `?` of line 166.  The invocations are numbered in the
\* order in which they begin.
GetToken(c) ==
    /\ pc[c] = "get_token"
    /\ \A d \in Calls : d < c => pc[d] # "get_token"
    /\ \E r \in TokenResponses :
        /\ sent' = [sent EXCEPT ![c] = Append(@, PutToken)]
        /\ recv' = [recv EXCEPT ![c] = Append(@, r)]
        /\ issued' = IF r.kind = "Ok" THEN issued + 1 ELSE issued
        /\ IF CallFailed(r)
           THEN /\ Return(c, Err(HttpRequest(r.kind)))
                /\ UNCHANGED token
           ELSE IF into_string(r).status = "Err"
                THEN /\ Return(c, into_string(r))
                     /\ UNCHANGED token
                ELSE /\ token' = [token EXCEPT ![c] = into_string(r).value]
                     /\ pc' = [pc EXCEPT ![c] = "InstanceId"]
                     /\ UNCHANGED <<local, result>>
    /\ preceded' = [preceded EXCEPT ![c] = {d \in Calls : pc[d] = "done"}]
    /\ UNCHANGED <<server, regionVars>>

\* A request whose body is the field; lines 172-181, 195-204, 219-248.
GetText(c, field, r, next) ==
    /\ pc[c] = field
    /\ Exchange(c, field, r)
    /\ IF CallFailed(r)
       THEN Return(c, Err(NotFound(Url(field))))
       ELSE IF into_string(r).status = "Err"
            THEN Return(c, into_string(r))
            ELSE Continue(c, [local[c] EXCEPT ![next[1]] = into_string(r).value], next[2])
    /\ UNCHANGED <<token, issued, preceded, regionVars>>

GetInstanceId(c) ==
    \E r \in Responses("InstanceId") :
        GetText(c, "InstanceId", r, <<"instance_id", "AccountId">>)

\* Lines 183-193.
GetAccountId(c) ==
    /\ pc[c] = "AccountId"
    /\ \E r \in Responses("AccountId") :
        /\ Exchange(c, "AccountId", r)
        /\ IF CallFailed(r)
           THEN Return(c, Err(NotFound(Url("AccountId"))))
           ELSE IF into_string(r).status = "Err"
                THEN Return(c, into_string(r))
                ELSE LET account_id ==
                             identity_credentials_to_account_id(into_string(r).value)
                     IN  IF account_id.status = "Err"
                         THEN Return(c, account_id)
                         ELSE Continue(c, [local[c] EXCEPT !.account_id = account_id.value],
                                       "AmiId")
    /\ UNCHANGED <<token, issued, preceded, regionVars>>

GetAmiId(c) ==
    \E r \in Responses("AmiId") :
        GetText(c, "AmiId", r, <<"ami_id", "AvailabilityZone">>)

\* Lines 206-217.
GetAvailabilityZone(c) ==
    /\ pc[c] = "AvailabilityZone"
    /\ \E r \in Responses("AvailabilityZone") :
        /\ Exchange(c, "AvailabilityZone", r)
        /\ IF CallFailed(r)
           THEN Return(c, Err(NotFound(Url("AvailabilityZone"))))
           ELSE IF into_string(r).status = "Err"
                THEN Return(c, into_string(r))
                ELSE LET availability_zone == into_string(r).value
                         region == availability_zone_to_region(availability_zone)
                     IN  IF region.status = "Err"
                         THEN Return(c, region)
                         ELSE Continue(c, [local[c] EXCEPT
                                               !.availability_zone = availability_zone,
                                               !.region = region.value],
                                       "InstanceType")
    /\ UNCHANGED <<token, issued, preceded, regionVars>>

GetInstanceType(c) ==
    \E r \in Responses("InstanceType") :
        GetText(c, "InstanceType", r, <<"instance_type", "Hostname">>)

GetHostname(c) ==
    \E r \in Responses("Hostname") :
        GetText(c, "Hostname", r, <<"hostname", "LocalHostname">>)

GetLocalHostname(c) ==
    \E r \in Responses("LocalHostname") :
        GetText(c, "LocalHostname", r, <<"local_hostname", "PublicHostname">>)

\* Lines 250-275: the optional field, and the record.
GetPublicHostname(c) ==
    /\ pc[c] = "PublicHostname"
    /\ \E r \in Responses("PublicHostname") :
        /\ Exchange(c, "PublicHostname", r)
        /\ IF CallFailed(r)
           THEN Return(c, Ok(InstanceMetadata(c, None)))
           ELSE IF into_string(r).status = "Err"
                THEN Return(c, into_string(r))
                ELSE Return(c, Ok(InstanceMetadata(c, Some(into_string(r).value))))
    /\ UNCHANGED <<token, issued, preceded, regionVars>>

InitClient ==
    /\ server = [f \in MetadataUrls |-> Unasked]
    /\ issued = 0
    /\ pc = [c \in Calls |-> "get_token"]
    /\ token = [c \in Calls |-> NoText]
    /\ local = [c \in Calls |-> NoLocals]
    /\ result = [c \in Calls |-> Pending]
    /\ sent = [c \in Calls |-> <<>>]
    /\ recv = [c \in Calls |-> <<>>]
    /\ preceded = [c \in Calls |-> {}]

Init ==
    /\ InitClient
    /\ zone = NoText
    /\ resolved = Pending

Next ==
    \E c \in Calls :
        \/ GetToken(c)
        \/ GetInstanceId(c)
        \/ GetAccountId(c)
        \/ GetAmiId(c)
        \/ GetAvailabilityZone(c)
        \/ GetInstanceType(c)
        \/ GetHostname(c)
        \/ GetLocalHostname(c)
        \/ GetPublicHostname(c)

Spec == Init /\ [][Next]_vars

----------------------------------------------------------------------------
(* availability_zone_to_region on its own *)

Letters == {"a", "b", "1"}

RECURSIVE Suffixes(_)
Suffixes(n) ==
    IF n = 0 THEN {NoText}
    ELSE Suffixes(n - 1) \cup {Append(s, x) : s \in Suffixes(n - 1), x \in Letters}

\* Zones of every region, region codes cut short or with a letter in front,
\* and text that is no zone.
ZoneInputs ==
    {REGIONS[i] \o s : i \in 1..Len(REGIONS), s \in Suffixes(MaxSuffix)}
    \cup {SubSeq(REGIONS[i], 1, Len(REGIONS[i]) - 1) : i \in 1..Len(REGIONS)}
    \cup {<<"x">> \o REGIONS[i] : i \in 1..Len(REGIONS)}
    \cup {NoText, <<"x", "x", "-", "w", "e", "s", "t", "-", "1">>}

InitRegion ==
    /\ InitClient
    /\ zone \in ZoneInputs
    /\ resolved = Pending

Resolve ==
    /\ resolved = Pending
    /\ resolved' = availability_zone_to_region(zone)
    /\ UNCHANGED <<zone, clientVars>>

NextRegion == Resolve

SpecRegion == InitRegion /\ [][NextRegion]_vars

----------------------------------------------------------------------------
(* What the properties below speak of *)

\* The token request and the eight field requests, in the order of the
\* specification, with the paths of its endpoint table.
FixedSequence ==
    << [method |-> "PUT", url |-> "http://169.254.169.254/latest/api/token"],
       [method |-> "GET", url |-> "http://169.254.169.254/latest/meta-data/instance-id"],
       [method |-> "GET",
        url |-> "http://169.254.169.254/latest/meta-data/identity-credentials/ec2/info"],
       [method |-> "GET", url |-> "http://169.254.169.254/latest/meta-data/ami-id"],
       [method |-> "GET",
        url |-> "http://169.254.169.254/latest/meta-data/placement/availability-zone"],
       [method |-> "GET", url |-> "http://169.254.169.254/latest/meta-data/instance-type"],
       [method |-> "GET", url |-> "http://169.254.169.254/latest/meta-data/hostname"],
       [method |-> "GET", url |-> "http://169.254.169.254/latest/meta-data/local-hostname"],
       [method |-> "GET", url |-> "http://169.254.169.254/latest/meta-data/public-hostname"] >>

\* Positions in FixedSequence.
At ==
    [Token |-> 1, InstanceId |-> 2, AccountId |-> 3, AmiId |-> 4,
     AvailabilityZone |-> 5, InstanceType |-> 6, Hostname |-> 7,
     LocalHostname |-> 8, PublicHostname |-> 9]

NonOptional == At.InstanceId..At.LocalHostname

Shape(req) == [method |-> req.method, url |-> req.url]
IsPrefix(p, s) == Len(p) <= Len(s) /\ SubSeq(s, 1, Len(p)) = p
RegionEntries == {REGIONS[i] : i \in 1..Len(REGIONS)}
Matches(z) == {r \in RegionEntries : IsPrefix(r, z)}

Done(c) == pc[c] = "done"
Asked(c, i) == i \in 1..Len(recv[c])
Refused(r) == r.kind \in {"Transport", "Status"}
Failed(r) == r.kind \in {"Transport", "Status", "BodyError"}
ReturnedOk(c) == result[c].status = "Ok"
ReturnedErr(c, kind) == result[c].status = "Err" /\ result[c].error.kind = kind
ReturnedNotFound(c, i) ==
    ReturnedErr(c, "NotFound") /\ result[c].error.url = FixedSequence[i].url

\* The AccountId of an identity-credentials document.
AccountIdOf(body) == JsonIndexToString(JsonParse(body).members, AccountIdKey)
Keys(body) ==
    LET members == JsonParse(body).members
    IN  {members[i][1] : i \in 1..Len(members)}
Members(body) ==
    LET members == JsonParse(body).members
    IN  {members[i] : i \in 1..Len(members)}

\* The record that get() is to build from the bodies of the responses rs.
RecordOf(rs, public_hostname) ==
    [region |-> CHOOSE r \in Matches(rs[At.AvailabilityZone].body) : TRUE,
     availability_zone |-> rs[At.AvailabilityZone].body,
     instance_id |-> rs[At.InstanceId].body,
     account_id |-> AccountIdOf(rs[At.AccountId].body),
     ami_id |-> rs[At.AmiId].body,
     instance_type |-> rs[At.InstanceType].body,
     hostname |-> rs[At.Hostname].body,
     local_hostname |-> rs[At.LocalHostname].body,
     public_hostname |-> public_hostname]

----------------------------------------------------------------------------
\* C1 as stated: when the request of one of the seven non-optional fields
\* fails in any of the three ways (transport error, non-2xx status, body-read
\* error), get() returns NotFound with that field's URL.
C1_AnyFailureIsNotFound ==
    \A c \in Calls : \A i \in NonOptional :
        Asked(c, i) /\ Failed(recv[c][i]) => ReturnedNotFound(c, i)

\* C1 amended: a transport error or a non-2xx status on a non-optional field makes
\* get() return NotFound with that field's URL; a body-read error makes it
\* return IoError instead.
C1_FailureKinds ==
    \A c \in Calls : \A i \in NonOptional :
        Asked(c, i) =>
            /\ Refused(recv[c][i]) => ReturnedNotFound(c, i)
            /\ recv[c][i].kind = "BodyError" => ReturnedErr(c, "IoError")

C1_Witness ==
    \E c \in Calls :
        /\ Asked(c, At.Hostname)
        /\ recv[c][At.Hostname].kind = "Status"
        /\ ReturnedNotFound(c, At.Hostname)

\* C2 as stated: with the token and the seven non-optional fields fetched, any
\* failure of the public_hostname request (body-read error included) gives Ok
\* with public_hostname absent and the other fields from the bodies.
C2_AnyFailureIsAbsent ==
    \A c \in Calls :
        Asked(c, At.PublicHostname) /\ Failed(recv[c][At.PublicHostname]) =>
            result[c] = Ok(RecordOf(recv[c], None))

\* C2 amended: with the token and the seven non-optional fields fetched, a
\* transport error or non-2xx status on public_hostname gives Ok with
\* public_hostname absent, every other field equal to its body, account_id the
\* AccountId of the identity-credentials body and region the table entry that
\* prefixes availability_zone; a body-read error on public_hostname makes
\* get() return IoError.
C2_PublicHostnameFailure ==
    \A c \in Calls :
        Asked(c, At.PublicHostname) =>
            /\ Refused(recv[c][At.PublicHostname]) => result[c] = Ok(RecordOf(recv[c], None))
            /\ recv[c][At.PublicHostname].kind = "BodyError" => ReturnedErr(c, "IoError")

C2_Witness ==
    \E c \in Calls :
        /\ Asked(c, At.PublicHostname)
        /\ recv[c][At.PublicHostname].kind = "Status"
        /\ ReturnedOk(c)
        /\ ~result[c].value.public_hostname.some
        /\ result[c].value.region = <<"u", "s", "-", "e", "a", "s", "t", "-", "1">>
        /\ result[c].value.account_id = <<"1", "2">>

\* C3: when the token PUT fails (transport failure or non-success status)
\* get() returns the HttpRequest error of that failure and has issued no GET;
\* and every GET comes after a token PUT that succeeded.
C3_TokenFirst ==
    \A c \in Calls :
        /\ Asked(c, At.Token) /\ Refused(recv[c][At.Token]) =>
              /\ result[c] = Err([kind |-> "HttpRequest", msg |-> recv[c][At.Token].kind])
              /\ Len(sent[c]) = 1
        /\ \A i \in 1..Len(sent[c]) :
              sent[c][i].method = "GET" =>
                  /\ i > 1
                  /\ Shape(sent[c][1]) = FixedSequence[At.Token]
                  /\ recv[c][1].kind = "Ok"

C3_Witness ==
    \E c \in Calls :
        /\ Done(c)
        /\ recv[c] = <<Status>>
        /\ ReturnedErr(c, "HttpRequest")

C5_AlwaysNine ==
    \A c \in Calls : Done(c) => Len(sent[c]) = 1 + 8

\* C5 amended: a call of get() that returns Ok has performed exactly 1 + 8
\* round trips, one token PUT followed by 8 GETs; a call that returns an error
\* has performed the token PUT and at most 8 GETs, stopping at the request
\* that failed.
C5_RoundTrips ==
    \A c \in Calls :
        Done(c) =>
            /\ ReturnedOk(c) => Len(sent[c]) = 1 + 8
            /\ Len(sent[c]) \in 1..(1 + 8)
            /\ sent[c][1].method = "PUT"
            /\ \A i \in 2..Len(sent[c]) : sent[c][i].method = "GET"
            /\ \A i \in 1..(Len(sent[c]) - 1) : recv[c][i].kind = "Ok"

C5_Witness ==
    \E c, d \in Calls :
        /\ Done(c) /\ ReturnedOk(c) /\ Len(sent[c]) = 1 + 8
        /\ Done(d) /\ ReturnedErr(d, "HttpRequest") /\ Len(sent[d]) = 1

\* C6: availability_zone_to_region scans the 19-entry table in its declared
\* order and returns the first entry that is a literal prefix of the zone:
\* whenever the zone starts with a table entry the result is that entry, no
\* entry is a prefix of another, and a zone that no entry prefixes gives
\* UnknownAvailabilityZone with the zone unchanged.
C6_RegionByPrefix ==
    /\ Len(REGIONS) = 19
    /\ \A i, j \in 1..Len(REGIONS) : i # j => ~IsPrefix(REGIONS[i], REGIONS[j])
    /\ resolved # Pending =>
          /\ \A r \in RegionEntries : IsPrefix(r, zone) => resolved = Ok(r)
          /\ Matches(zone) = {} =>
                resolved = Err([kind |-> "UnknownAvailabilityZone", zone |-> zone])
          /\ resolved.status = "Ok" =>
                \E i \in 1..Len(REGIONS) :
                    /\ resolved.value = REGIONS[i]
                    /\ \A j \in 1..(i - 1) : ~IsPrefix(REGIONS[j], zone)

C6_Witness ==
    /\ zone = <<"a", "p", "-", "s", "o", "u", "t", "h", "-", "1", "b">>
    /\ resolved = Ok(<<"a", "p", "-", "s", "o", "u", "t", "h", "-", "1">>)

\* C7 as stated: every record a successful get() returns has a non-empty
\* value in every field except public_hostname, whatever the bodies.
C7_AllNonEmpty ==
    \A c \in Calls :
        ReturnedOk(c) =>
            \A f \in {"region", "availability_zone", "instance_id", "account_id",
                      "ami_id", "instance_type", "hostname", "local_hostname"} :
                result[c].value[f] # NoText

\* C7 amended: every record a successful get() returns has a non-empty region
\* and availability_zone, and holds every other non-optional field as the
\* endpoint gave it: instance_id, ami_id, instance_type, hostname and
\* local_hostname are the response bodies, empty when the body was empty;
\* account_id is empty exactly when the document's AccountId is the empty
\* string, and it is the text null when the document has no AccountId key.
C7_FieldsAsReturned ==
    \A c \in Calls :
        ReturnedOk(c) =>
            LET m == result[c].value
                doc == recv[c][At.AccountId].body
            IN  /\ m.region # NoText
                /\ m.availability_zone # NoText
                /\ m.instance_id = recv[c][At.InstanceId].body
                /\ m.ami_id = recv[c][At.AmiId].body
                /\ m.instance_type = recv[c][At.InstanceType].body
                /\ m.hostname = recv[c][At.Hostname].body
                /\ m.local_hostname = recv[c][At.LocalHostname].body
                /\ m.account_id = NoText <=> <<AccountIdKey, NoText>> \in Members(doc)
                /\ AccountIdKey \notin Keys(doc) => m.account_id = <<"n", "u", "l", "l">>

C7_Witness ==
    \E c \in Calls :
        /\ ReturnedOk(c)
        /\ result[c].value.instance_id = NoText
        /\ result[c].value.account_id = <<"n", "u", "l", "l">>
        /\ AccountIdKey \notin Keys(recv[c][At.AccountId].body)

\* C8: when a field's request succeeds and processing its body fails, get()
\* returns the error of that step, never NotFound, and issues nothing more:
\* an identity-credentials body that is not JSON gives JsonError with ami_id
\* and the later fields never requested, and an availability-zone body that
\* no table entry prefixes gives UnknownAvailabilityZone with that body and
\* instance_type and the later fields never requested.
C8_ProcessingErrors ==
    \A c \in Calls :
        /\ /\ Asked(c, At.AccountId)
           /\ recv[c][At.AccountId].kind = "Ok"
           /\ ~JsonParse(recv[c][At.AccountId].body).ok
           => /\ ReturnedErr(c, "JsonError")
              /\ Len(sent[c]) = At.AccountId
        /\ /\ Asked(c, At.AvailabilityZone)
           /\ recv[c][At.AvailabilityZone].kind = "Ok"
           /\ Matches(recv[c][At.AvailabilityZone].body) = {}
           => /\ ReturnedErr(c, "UnknownAvailabilityZone")
              /\ result[c].error.zone = recv[c][At.AvailabilityZone].body
              /\ Len(sent[c]) = At.AvailabilityZone

C8_Witness ==
    \E c \in Calls :
        /\ ReturnedErr(c, "JsonError")
        /\ recv[c][At.AccountId].body = <<"n", "o", "t", " ", "j", "s", "o", "n">>
        /\ Len(sent[c]) = At.AccountId

\* C9: two successful get() calls, the second begun after the first returned,
\* that met the same eight field responses return equal records, whatever
\* the tokens they were given.
C9_SameResponsesSameRecord ==
    \A c, d \in Calls :
        /\ c \in preceded[d]
        /\ ReturnedOk(c) /\ ReturnedOk(d)
        /\ Tail(recv[c]) = Tail(recv[d])
        => result[c].value = result[d].value

C9_Witness ==
    \E c, d \in Calls :
        /\ c \in preceded[d]
        /\ ReturnedOk(c) /\ ReturnedOk(d)
        /\ Tail(recv[c]) = Tail(recv[d])
        /\ token[c] # token[d]
        /\ result[c].value = result[d].value

\* What get() gives when it runs by itself and the endpoint answers its
\* requests, in order, with rs: it goes on while the responses can be used
\* and returns at the first that cannot, or after the last request.
Usable(i, r) ==
    /\ r.kind = "Ok"
    /\ i = At.AccountId => JsonParse(r.body).ok
    /\ i = At.AvailabilityZone => Matches(r.body) # {}

AloneLength(rs) ==
    LET stops == {i \in 1..Len(rs) : ~Usable(i, rs[i])} \cup {Len(FixedSequence)}
    IN  CHOOSE i \in stops : \A j \in stops : i <= j

AloneRequests(rs) ==
    [i \in 1..AloneLength(rs) |->
        IF i = At.Token
        THEN [method |-> "PUT", url |-> FixedSequence[i].url, ttl |-> "21600"]
        ELSE [method |-> "GET", url |-> FixedSequence[i].url, token |-> rs[At.Token].body]]

AloneResult(rs) ==
    LET k == AloneLength(rs)
        r == rs[k]
    IN  CASE r.kind = "BodyError" -> Err([kind |-> "IoError", msg |-> "io"])
          [] Refused(r) /\ k = At.Token -> Err([kind |-> "HttpRequest", msg |-> r.kind])
          [] Refused(r) /\ k \in NonOptional ->
                 Err([kind |-> "NotFound", url |-> FixedSequence[k].url])
          [] Refused(r) /\ k = At.PublicHostname -> Ok(RecordOf(rs, None))
          [] r.kind = "Ok" /\ k = At.AccountId -> Err([kind |-> "JsonError", msg |-> "json"])
          [] r.kind = "Ok" /\ k = At.AvailabilityZone ->
                 Err([kind |-> "UnknownAvailabilityZone", zone |-> r.body])
          [] r.kind = "Ok" /\ k = At.PublicHostname -> Ok(RecordOf(rs, Some(r.body)))

\* C10: get() invocations that overlap are independent under every
\* interleaving: each issues its own token PUT, first and once, sends on its
\* GETs only the token that PUT returned, which no other invocation sends,
\* and returns the result and has sent the requests that it would alone with
\* the same responses.
C10_Independent ==
    \A c \in Calls :
        /\ \A i \in 1..Len(sent[c]) : sent[c][i].method = "PUT" <=> i = 1
        /\ \A i \in 2..Len(sent[c]) :
              /\ sent[c][i].token = recv[c][At.Token].body
              /\ \A d \in Calls \ {c} :
                    Asked(d, At.Token) /\ recv[d][At.Token].kind = "Ok" =>
                        sent[c][i].token # recv[d][At.Token].body
        /\ Done(c) =>
              /\ Len(recv[c]) = AloneLength(recv[c])
              /\ sent[c] = AloneRequests(recv[c])
              /\ result[c] = AloneResult(recv[c])

\* Two invocations in flight at once, each past its token request, that both
\* return Ok.
C10_Witness ==
    \E c, d \in Calls :
        /\ c # d
        /\ c \notin preceded[d] /\ d \notin preceded[c]
        /\ ReturnedOk(c) /\ ReturnedOk(d)
        /\ sent[c][At.InstanceId].token # sent[d][At.InstanceId].token
        /\ result[c] = AloneResult(recv[c])

====
